---- MODULE Spec2Model ----
(***************************************************************************)
(* A model of ufo2ft's feature writers: the context protocol of            *)
(* BaseFeatureWriter (setContext / shouldContinue), the splicing of        *)
(* generated blocks into a feature file (BaseFeatureWriter._insert) and    *)
(* the GDEF writer built on them (GdefFeatureWriter).                      *)
(*                                                                         *)
(* A statement of the feature file is a record                             *)
(*   [id, kind, name, text, statements]                                    *)
(* id stands for the identity of the Python object (list.index and         *)
(* list.remove compare the ast objects by identity), kind for its class,   *)
(* text for the text of a Comment and statements for the body of a block.  *)
(* Indices into statement lists are kept 0-based, as in the source.        *)
(***************************************************************************)
EXTENDS Integers, Sequences, FiniteSets, TLC

VARIABLES
    feaFile,    \* feaFile.statements, the top-level statements of the document
    writer,     \* the constructed writer: [features, mode, insertFeatureMarker]
    context,    \* self.context, NoContext when the attribute is not set
    pc,         \* "idle" | "context" | "inserted" | "skipped"
    err,        \* the exception that left the last operation, [type, block]
    call,       \* the arguments of the _insert call made by _write
    original,   \* the document as it was handed to the writer
    font,       \* the font data the GDEF writer reads
    returned    \* the values returned by the calls of GdefFeatureWriter.write

vars == <<feaFile, writer, context, pc, err, call, original, font, returned>>

---------------------------------------------------------------------------
(* Bounds of the model *)

\* size of a document: its top-level statements plus the statements in its blocks
MaxSize == 4
\* number of lookup blocks passed to _insert
MaxLookups == 2

---------------------------------------------------------------------------
(* The document model (fontTools.feaLib.ast, consumed as an interface) *)

\* feature tags the writer supports (the class attribute `features`)
Tags == {"liga", "kern", "mark"}
\* tags of the feature blocks a document holds before the writer runs
DocTags == {"liga", "kern"}

MarkerText == "# Automatic Code"
NoteText == "# note"

Statement(id, kind, name, text, statements) ==
    [id |-> id, kind |-> kind, name |-> name, text |-> text, statements |-> statements]

Comment(id, text) == Statement(id, "Comment", "", text, <<>>)
Rule(id) == Statement(id, "Rule", "", "", <<>>)
FeatureBlock(id, name, statements) == Statement(id, "FeatureBlock", name, "", statements)
LookupBlock(id, name, statements) == Statement(id, "LookupBlock", name, "", statements)
TableBlock(id, name, statements) == Statement(id, "TableBlock", name, "", statements)

\* isinstance(s, ast.Comment)
IsComment(s) == s.kind = "Comment"
\* hasattr(s, "statements")
HasStatements(s) == s.kind \in {"FeatureBlock", "LookupBlock", "TableBlock"}

\* re.match(INSERT_FEATURE_MARKER, text) on the texts of the model:
\* r"\s*# Automatic Code.*" matches MarkerText, and neither NoteText nor "".
MatchesInsertMarker(text) == text = MarkerText

IsMarker(s) == IsComment(s) /\ MatchesInsertMarker(s.text)

---------------------------------------------------------------------------
(* Python list operations, 0-based *)

\* list.insert(index, x)
InsertAt(s, index, x) == SubSeq(s, 1, index) \o <<x>> \o SubSeq(s, index + 1, Len(s))
\* del s[index]
RemoveAt(s, index) == SubSeq(s, 1, index) \o SubSeq(s, index + 2, Len(s))
\* s.index(x): the first position that holds the object x
IndexOf(s, id) ==
    CHOOSE i \in 0..(Len(s) - 1) :
        /\ s[i + 1].id = id
        /\ \A j \in 0..(i - 1) : s[j + 1].id # id
Has(s, id) == \E i \in 1..Len(s) : s[i].id = id
Ids(s) == {s[i].id : i \in 1..Len(s)}

RECURSIVE SeqMin(_)
\* min(indices) of a non-empty list
SeqMin(s) ==
    IF Len(s) = 1 THEN s[1]
    ELSE LET m == SeqMin(Tail(s)) IN IF s[1] <= m THEN s[1] ELSE m

---------------------------------------------------------------------------
(* ufo2ft.featureWriters.ast helpers used by the writers *)

\* the module constant INSERT_FEATURE_MARKER, the default of insertFeatureMarker
INSERT_FEATURE_MARKER == "\\s*# Automatic Code.*"
\* insertFeatureMarker = None
NoMarker == "None"

\* re.match(pattern, str(comment))
MatchesPattern(pattern, s) == pattern = INSERT_FEATURE_MARKER /\ MatchesInsertMarker(s.text)

\* ast.findFeatureTags: the names of the top-level feature blocks
findFeatureTags(statements) ==
    {statements[i].name : i \in {j \in 1..Len(statements) : statements[j].kind = "FeatureBlock"}}

RECURSIVE findCommentPattern(_, _)
\* ast.findCommentPattern: in document order, one match per comment that matches
\* the pattern: the blocks that enclose it, outermost first, and the comment
findCommentPattern(statements, pattern) ==
    IF statements = <<>> THEN <<>>
    ELSE LET s == Head(statements)
             inner == findCommentPattern(s.statements, pattern)
             here == IF HasStatements(s)
                     THEN [k \in 1..Len(inner) |->
                              [blocks |-> <<s>> \o inner[k].blocks, comment |-> inner[k].comment]]
                     ELSE IF IsComment(s) /\ MatchesPattern(pattern, s)
                          THEN << [blocks |-> <<>>, comment |-> s] >>
                          ELSE <<>>
         IN here \o findCommentPattern(Tail(statements), pattern)

\* ast.findTable: the first top-level table block of that name, 0 when there is none
findTable(statements, tag) ==
    LET at == {i \in 1..Len(statements) :
                  statements[i].kind = "TableBlock" /\ statements[i].name = tag}
    IN IF at = {} THEN 0 ELSE CHOOSE i \in at : \A j \in at : i <= j

---------------------------------------------------------------------------
(* BaseFeatureWriter: the context *)

\* an empty dict
EmptyDict == [n \in {} |-> 0]

\* collectMatch without `block.name not in insertComments`: the last marker wins
collectMatchLastWins(insertComments, match, featureTags) ==
    LET blocks == match.blocks
        comment == match.comment
    IN IF /\ Len(blocks) = 1
          /\ blocks[1].kind = "FeatureBlock"
          /\ blocks[1].name \in featureTags
       THEN (blocks[1].name :> [block |-> blocks[1].id, comment |-> comment.id])
                @@ insertComments
       ELSE insertComments

\* one iteration of the loop of collectInsertMarkers
collectMatch(insertComments, match, featureTags) ==
    LET blocks == match.blocks
        comment == match.comment
    IN IF /\ Len(blocks) = 1
          /\ blocks[1].kind = "FeatureBlock"
          /\ blocks[1].name \in featureTags
          /\ blocks[1].name \notin DOMAIN insertComments
       THEN insertComments @@
                (blocks[1].name :> [block |-> blocks[1].id, comment |-> comment.id])
       ELSE insertComments

RECURSIVE collectMatches(_, _, _)
collectMatches(insertComments, matches, featureTags) ==
    IF matches = <<>> THEN insertComments
    ELSE collectMatches(collectMatch(insertComments, Head(matches), featureTags),
                        Tail(matches), featureTags)

\* BaseFeatureWriter.collectInsertMarkers: feature tag -> (block, comment)
collectInsertMarkers(statements, insertFeatureMarker, featureTags) ==
    collectMatches(EmptyDict, findCommentPattern(statements, insertFeatureMarker), featureTags)

\* self.context before setContext and after `del self.context`
NoContext == [set |-> FALSE]

\* insertComments is None
NoInsertComments == [isNone |-> TRUE, map |-> EmptyDict]

\* `if insertComments`: neither None nor an empty dict
Truthy(insertComments) == ~insertComments.isNone /\ DOMAIN insertComments.map # {}

\* BaseFeatureWriter.setContext: the context namespace (todo, insertComments,
\* existingFeatures; font, feaFile and compiler are the arguments themselves)
setContext(w, statements) ==
    LET todo0 == w.features
        skip == w.mode = "skip"
        insertComments ==
            IF skip /\ w.insertFeatureMarker # NoMarker
            THEN [isNone |-> FALSE,
                  map |-> collectInsertMarkers(statements, w.insertFeatureMarker, todo0)]
            ELSE NoInsertComments
        found == IF skip THEN findFeatureTags(statements) ELSE {}
        existing == IF Truthy(insertComments) THEN found \ DOMAIN insertComments.map ELSE found
        todo == IF skip THEN todo0 \ existing ELSE todo0
    IN [set |-> TRUE, todo |-> todo, insertComments |-> insertComments,
        existingFeatures |-> existing]

\* BaseFeatureWriter.shouldContinue
shouldContinue(ctx) == ctx.todo # {}

---------------------------------------------------------------------------
(* BaseFeatureWriter._insert *)

NoError == [type |-> "none", block |-> ""]
\* raise InvalidFeaturesData("... feature {block.name} cannot be inserted ...")
InvalidFeaturesData(block) == [type |-> "InvalidFeaturesData", block |-> block.name]
\* min() of an empty list
ValueError == [type |-> "ValueError", block |-> ""]
\* set.remove of an element that is not in the set
KeyError == [type |-> "KeyError", block |-> ""]

\* The local state of _insert while it walks `features`: the list `statements`
\* (the document's own list, changed in place), `indices`, the ids in
\* `inserted`, and the exception raised, if any.
InsertState(statements) ==
    [statements |-> statements, indices |-> <<>>, inserted |-> {}, err |-> NoError]

\* insertFeature with the block put one place too far down
insertFeatureOneTooFar(st, index, feature) ==
    [st EXCEPT !.statements = InsertAt(@, IF index < Len(@) THEN index + 1 ELSE index, feature),
               !.indices = Append(@, index),
               !.inserted = @ \cup {feature.id}]

\* statements.insert(index, feature); indices.append(index); inserted[id(feature)] = True
insertFeature(st, index, feature) ==
    [st EXCEPT !.statements = InsertAt(@, index, feature),
               !.indices = Append(@, index),
               !.inserted = @ \cup {feature.id}]

\* insertDependent with the block put after the current one instead of before it
insertDependentAfter(st, index, feature) ==
    [st EXCEPT !.statements = InsertAt(@, index + 1, feature),
               !.indices = <<index>> \o [k \in 1..Len(@) |-> @[k] + 1],
               !.inserted = @ \cup {feature.id}]

\* one iteration of the backwards walk: statements.insert(index, features[i]);
\* indices = [index] + [j + 1 for j in indices]; inserted[id(features[i])] = True
insertDependent(st, index, feature) ==
    [st EXCEPT !.statements = InsertAt(@, index, feature),
               !.indices = <<index>> \o [k \in 1..Len(@) |-> @[k] + 1],
               !.inserted = @ \cup {feature.id}]

RECURSIVE insertDependents(_, _, _, _)
\* for i in range(ix - 1, -1, -1), until a feature that is already inserted;
\* i counts the features from 1
insertDependents(st, features, index, i) ==
    IF i < 1 \/ features[i].id \in st.inserted THEN st
    ELSE insertDependents(insertDependent(st, index, features[i]), features, index, i - 1)

\* markerPosition that replaces the block whenever only comments precede the
\* marker (`and onlyCommentsAfter` left out)
markerPositionReplaceAtTop(block, markerIndex) ==
    LET onlyCommentsBefore ==
            \A j \in 1..markerIndex : IsComment(block.statements[j])
        onlyCommentsAfter ==
            \A j \in (markerIndex + 1)..Len(block.statements) : IsComment(block.statements[j])
    IN IF onlyCommentsBefore THEN "replace"
       ELSE IF onlyCommentsAfter THEN "after"
       ELSE "middle"

\* markerPosition without the final else: a marker amid rules counts as one at
\* the bottom
markerPositionNoMiddle(block, markerIndex) ==
    LET onlyCommentsBefore ==
            \A j \in 1..markerIndex : IsComment(block.statements[j])
        onlyCommentsAfter ==
            \A j \in (markerIndex + 1)..Len(block.statements) : IsComment(block.statements[j])
    IN IF onlyCommentsBefore /\ onlyCommentsAfter THEN "replace"
       ELSE IF onlyCommentsBefore THEN "before"
       ELSE "after"

\* The branch the marker's place in its block selects: onlyCommentsBefore and
\* onlyCommentsAfter, then the if / elif / elif / else on them
markerPosition(block, markerIndex) ==
    LET onlyCommentsBefore ==
            \A j \in 1..markerIndex : IsComment(block.statements[j])
        onlyCommentsAfter ==
            \A j \in (markerIndex + 1)..Len(block.statements) : IsComment(block.statements[j])
    IN IF onlyCommentsBefore /\ onlyCommentsAfter THEN "replace"
       ELSE IF onlyCommentsBefore THEN "before"
       ELSE IF onlyCommentsAfter THEN "after"
       ELSE "middle"

\* The body of the first loop for a feature whose name has an insert marker.
insertAtMarker(st, entry, features, ix) ==
    LET feature == features[ix]
        host == IndexOf(st.statements, entry.block)
        block == st.statements[host + 1]
        markerIndex == IndexOf(block.statements, entry.comment)
        position == markerPosition(block, markerIndex)
        \* del block.statements[markerIndex]
        marked == [st EXCEPT !.statements[host + 1].statements = RemoveAt(@, markerIndex)]
    IN IF position = "replace"
       THEN \* index = statements.index(block); statements.remove(block)
            insertDependents(
                insertFeature([marked EXCEPT !.statements = RemoveAt(@, host)], host, feature),
                features, host, ix - 1)
       ELSE IF position = "before"
       THEN insertDependents(insertFeature(marked, host, feature), features, host, ix - 1)
       ELSE IF position = "after"
       THEN insertDependents(insertFeature(marked, host + 1, feature),
                             features, host + 1, ix - 1)
       ELSE [marked EXCEPT !.err = InvalidFeaturesData(block)]

RECURSIVE insertMarked(_, _, _, _)
\* for ix, feature in enumerate(features): the features with an insert marker;
\* ix counts the features from 1
insertMarked(st, insertComments, features, ix) ==
    IF ix > Len(features) \/ st.err # NoError THEN st
    ELSE IF Truthy(insertComments) /\ features[ix].name \in DOMAIN insertComments.map
    THEN insertMarked(insertAtMarker(st, insertComments.map[features[ix].name], features, ix),
                      insertComments, features, ix + 1)
    ELSE insertMarked(st, insertComments, features, ix + 1)

RECURSIVE insertRemaining(_, _, _)
\* for feature in features: append those that are not inserted yet
insertRemaining(st, features, ix) ==
    IF ix > Len(features) THEN st
    ELSE IF features[ix].id \in st.inserted
    THEN insertRemaining(st, features, ix + 1)
    ELSE insertRemaining(
             [st EXCEPT !.statements = InsertAt(@, Len(@), features[ix]),
                        !.indices = Append(@, Len(st.statements))],
             features, ix + 1)

\* statements[:minindex] + lookups + statements[minindex:], when lookups is not empty
insertLookups(statements, minindex, lookups) ==
    IF lookups # <<>>
    THEN SubSeq(statements, 1, minindex) \o lookups
             \o SubSeq(statements, minindex + 1, Len(statements))
    ELSE statements

\* ast.Comment(""), a new object for each group of definitions
BlankComment(k) == Comment(400 + k, "")

\* others: each non-empty group of definitions followed by a blank comment
collectOthers(classDefs, anchorDefs, markClassDefs) ==
    (IF classDefs # <<>> THEN classDefs \o <<BlankComment(1)>> ELSE <<>>)
    \o (IF anchorDefs # <<>> THEN anchorDefs \o <<BlankComment(2)>> ELSE <<>>)
    \o (IF markClassDefs # <<>> THEN markClassDefs \o <<BlankComment(3)>> ELSE <<>>)

\* BaseFeatureWriter._insert: the document's statements when the call returns or
\* raises, and the exception raised
_insert(statements, insertComments, classDefs, anchorDefs, markClassDefs, lookups, features) ==
    LET marked == insertMarked(InsertState(statements), insertComments, features, 1)
        all == insertRemaining(marked, features, 1)
    IN IF marked.err # NoError
       THEN [statements |-> marked.statements, err |-> marked.err]
       ELSE IF all.indices = <<>>
       THEN [statements |-> all.statements, err |-> ValueError]
       ELSE [statements |->
                 collectOthers(classDefs, anchorDefs, markClassDefs)
                     \o insertLookups(all.statements, SeqMin(all.indices), lookups),
             err |-> NoError]

---------------------------------------------------------------------------
(* The documents and the writers the model starts from *)

\* what a block of the initial document holds: an insert marker, another
\* comment, or a rule
InnerKinds == {"marker", "note", "rule"}

Inner(kind) ==
    CASE kind = "marker" -> Comment(0, MarkerText)
      [] kind = "note" -> Comment(0, NoteText)
      [] kind = "rule" -> Rule(0)

\* the top-level statements of size s: a comment (an insert marker or not), a
\* lookup block that holds an insert marker, or a feature block of s - 1 statements
ItemsOfSize(s) ==
    (IF s = 1 THEN {Comment(0, MarkerText), Comment(0, NoteText)} ELSE {})
    \cup (IF s = 2 THEN {LookupBlock(0, "liga", <<Comment(0, MarkerText)>>)} ELSE {})
    \cup {FeatureBlock(0, tag, [j \in 1..(s - 1) |-> Inner(c[j])]) :
             tag \in DocTags, c \in [1..(s - 1) -> InnerKinds]}

RECURSIVE DocsOfSize(_)
DocsOfSize(n) ==
    IF n = 0 THEN {<<>>}
    ELSE UNION {{<<item>> \o d : item \in ItemsOfSize(s), d \in DocsOfSize(n - s)} :
                   s \in 1..n}

\* every statement gets its own identity: 10 * p for the p-th top-level
\* statement, 10 * p + j for the j-th statement of its body
Number(doc) ==
    [p \in 1..Len(doc) |->
        [doc[p] EXCEPT !.id = 10 * p,
                       !.statements = [j \in 1..Len(@) |-> [@[j] EXCEPT !.id = 10 * p + j]]]]

Documents == {Number(d) : d \in UNION {DocsOfSize(n) : n \in 0..MaxSize}}

\* BaseFeatureWriter.__init__: the writers the constructor accepts (a non-empty
\* subset of the supported features, a supported mode)
Writers ==
    {[features |-> F, mode |-> m, insertFeatureMarker |-> k] :
        F \in (SUBSET Tags) \ {{}},
        m \in {"skip", "append"},
        k \in {INSERT_FEATURE_MARKER, NoMarker}}

\* the class defaults: mode = "skip", insertFeatureMarker = INSERT_FEATURE_MARKER
DefaultWriters ==
    {w \in Writers : w.mode = "skip" /\ w.insertFeatureMarker = INSERT_FEATURE_MARKER}

NoCall == [made |-> FALSE]
NoFont == [glyphs |-> <<>>]

---------------------------------------------------------------------------
(* What a subclass's _write hands to _insert *)

TagNo(tag) == CASE tag = "liga" -> 1 [] tag = "kern" -> 2 [] tag = "mark" -> 3

\* the feature block generated for a tag
NewFeature(tag) ==
    FeatureBlock(100 + 10 * TagNo(tag), tag, <<Rule(101 + 10 * TagNo(tag))>>)
\* the i-th generated lookup block
NewLookup(i) == LookupBlock(200 + i, "aux", <<>>)
\* a generated glyph class definition
NewClassDef == Statement(300, "GlyphClassDefinition", "", "", <<>>)

\* the lists of distinct elements of S
Orderings(S) ==
    {s \in UNION {[1..k -> S] : k \in 0..Cardinality(S)} :
        \A i, j \in 1..Len(s) : i # j => s[i] # s[j]}

---------------------------------------------------------------------------
(* The steps of BaseFeatureWriter.write *)

InitWith(writers) ==
    /\ feaFile \in Documents
    /\ original = feaFile
    /\ writer \in writers
    /\ context = NoContext
    /\ pc = "idle"
    /\ err = NoError
    /\ call = NoCall
    /\ font = NoFont
    /\ returned = <<>>

Init == InitWith(DefaultWriters)

\* write: self.setContext(font, feaFile, compiler=compiler)
SetContext ==
    /\ pc = "idle"
    /\ context' = setContext(writer, feaFile)
    /\ pc' = "context"
    /\ UNCHANGED <<feaFile, writer, err, call, original, font, returned>>

\* write: shouldContinue() is False, write returns False; finally: del self.context
Skip ==
    /\ pc = "context"
    /\ ~shouldContinue(context)
    /\ pc' = "skipped"
    /\ context' = NoContext
    /\ UNCHANGED <<feaFile, writer, err, call, original, font, returned>>

\* write: shouldContinue() is True and _write calls _insert with blocks for
\* features of the todo list, in an order of its choice, with lookups and
\* class definitions; finally: del self.context
Insert ==
    /\ pc = "context"
    /\ shouldContinue(context)
    /\ \E names \in Orderings(context.todo), n \in 0..MaxLookups,
          classDefs \in {<<>>, <<NewClassDef>>} :
          LET features == [i \in 1..Len(names) |-> NewFeature(names[i])]
              lookups == [i \in 1..n |-> NewLookup(i)]
              r == _insert(feaFile, context.insertComments, classDefs, <<>>, <<>>,
                           lookups, features)
          IN /\ feaFile' = r.statements
             /\ err' = r.err
             /\ call' = [made |-> TRUE, features |-> features, lookups |-> lookups,
                         classDefs |-> classDefs,
                         insertComments |-> context.insertComments]
    /\ pc' = "inserted"
    /\ context' = NoContext
    /\ UNCHANGED <<writer, original, font, returned>>

Next == SetContext \/ Skip \/ Insert

Spec == Init /\ [][Next]_vars

\* the context protocol alone, for every writer the constructor accepts
InitContext == InitWith(Writers)

SpecContext == InitContext /\ [][SetContext]_vars

---------------------------------------------------------------------------
(* GdefFeatureWriter *)

\* number of glyphs of the font
MaxGlyphs == 2
\* number of statements of the GDEF table of the initial document
MaxTableLen == 2
\* number of times write is called on the document
MaxRuns == 2

\* the class attribute `features` of GdefFeatureWriter
GdefFeatures == {"GlyphClassDefs", "LigatureCarets"}

\* the GDEF writers the constructor accepts; the class sets mode = "skip"
\* (inherited) and insertFeatureMarker = None
GdefWriters ==
    {[features |-> F, mode |-> "skip", insertFeatureMarker |-> NoMarker] :
        F \in (SUBSET GdefFeatures) \ {{}}}

\* the statements of a GDEF table; args holds what the statement was built from
GdefStatement(id, kind, args) ==
    [id |-> id, kind |-> kind, name |-> "", text |-> "", statements |-> <<>>, args |-> args]

\* anchor.name.startswith(prefix), on the anchor names of the model
StartsWith(name, prefix) ==
    \/ prefix = "caret_" /\ name = "caret_1"
    \/ prefix = "vcaret_" /\ name = "vcaret_1"

\* the anchors a glyph of the model may carry (coordinates are integers, on
\* which round() changes nothing)
AnchorLists ==
    {<<>>,
     <<[name |-> "caret_1", x |-> 300, y |-> 0]>>,
     <<[name |-> "vcaret_1", x |-> 0, y |-> 200]>>,
     <<[name |-> "top", x |-> 250, y |-> 700]>>}

\* the fonts of the model: up to MaxGlyphs glyphs in glyph order, named n, n - 1,
\* ..., 1, each with anchors and a 'public.openTypeCategories' entry ("" for none)
Fonts ==
    UNION {{[glyphs |-> [i \in 1..n |->
                            [name |-> n + 1 - i, anchors |-> a[i], category |-> c[i]]]] :
               a \in [1..n -> AnchorLists], c \in [1..n -> {"", "ligature"}]} :
           n \in 0..MaxGlyphs}

\* BaseFeatureWriter.getOrderedGlyphSet: the glyphs by glyph order
getOrderedGlyphSet(f) == f.glyphs

\* BaseFeatureWriter.getOpenTypeCategories: the glyph names by category
getOpenTypeCategories(f) ==
    LET named(category) ==
            {f.glyphs[i].name : i \in {k \in 1..Len(f.glyphs) : f.glyphs[k].category = category}}
    IN [unassigned |-> named("unassigned"), base |-> named("base"),
        ligature |-> named("ligature"), mark |-> named("mark"),
        component |-> named("component")]

\* any(self.context.openTypeCategories)
anyCategories(categories) ==
    \E k \in DOMAIN categories : categories[k] # {}

\* the caret positions of one glyph: sorted(glyphCarets)
glyphCarets(glyph) ==
    LET carets ==
            {glyph.anchors[i].x : i \in {k \in 1..Len(glyph.anchors) :
                                            StartsWith(glyph.anchors[k].name, "caret_")}}
            \cup {glyph.anchors[i].y : i \in {k \in 1..Len(glyph.anchors) :
                                                 /\ ~StartsWith(glyph.anchors[k].name, "caret_")
                                                 /\ StartsWith(glyph.anchors[k].name, "vcaret_")}}
    IN SortSeq(CHOOSE q \in [1..Cardinality(carets) -> carets] :
                   \A i, j \in 1..Cardinality(carets) : i # j => q[i] # q[j],
               LAMBDA a, b : a < b)

RECURSIVE _getLigatureCarets(_)
\* GdefFeatureWriter._getLigatureCarets: in glyph order, the glyphs that have
\* carets, each with its sorted caret positions (a dict keeps insertion order)
_getLigatureCarets(glyphs) ==
    IF glyphs = <<>> THEN <<>>
    ELSE (IF glyphCarets(Head(glyphs)) # <<>>
          THEN <<[glyphName |-> Head(glyphs).name, carets |-> glyphCarets(Head(glyphs))]>>
          ELSE <<>>)
             \o _getLigatureCarets(Tail(glyphs))

\* GdefFeatureWriter._sortedGlyphClass
_sortedGlyphClass(glyphs, glyphNames) ==
    SortSeq(SelectSeq([i \in 1..Len(glyphs) |-> glyphs[i].name],
                      LAMBDA n : n \in glyphNames),
            LAMBDA a, b : a < b)

\* the group of features a statement of the GDEF table stands for, "" for none
\* (the isinstance tests of setContext)
groupOf(fea) ==
    IF fea.kind = "GlyphClassDefStatement" THEN "GlyphClassDefs"
    ELSE IF fea.kind \in {"LigatureCaretByIndexStatement", "LigatureCaretByPosStatement"}
    THEN "LigatureCarets"
    ELSE ""

RECURSIVE removeFound(_, _)
\* the loop over the statements of the GDEF table: ctx.todo.remove(...), which
\* raises KeyError when the name is not in the set
removeFound(todo, statements) ==
    IF statements = <<>> THEN [todo |-> todo, err |-> NoError]
    ELSE LET group == groupOf(Head(statements))
         IN IF group = "" THEN removeFound(todo, Tail(statements))
            ELSE IF group \in todo THEN removeFound(todo \ {group}, Tail(statements))
            ELSE [todo |-> todo, err |-> KeyError]

\* GdefFeatureWriter.setContext: the context and the exception raised, if any
gdefSetContext(w, statements, f) ==
    LET ctx == setContext(w, statements)
        table == findTable(statements, "GDEF")
        found == IF table # 0
                 THEN removeFound(ctx.todo, statements[table].statements)
                 ELSE [todo |-> ctx.todo, err |-> NoError]
    IN [todo |-> found.todo,
        gdefTableBlock |-> table,
        openTypeCategories |-> getOpenTypeCategories(f),
        ligatureCarets |-> _getLigatureCarets(getOrderedGlyphSet(f)),
        err |-> found.err]

\* GdefFeatureWriter.shouldContinue: the todo set it leaves; it returns whether
\* the set is not empty (BaseFeatureWriter.shouldContinue)
gdefShouldContinue(ctx) ==
    IF ctx.todo = {} THEN {}
    ELSE (ctx.todo \ (IF ctx.ligatureCarets = <<>> THEN {"LigatureCarets"} ELSE {}))
             \ (IF ~anyCategories(ctx.openTypeCategories) THEN {"GlyphClassDefs"} ELSE {})

\* GdefFeatureWriter._makeGDEF: the statements appended to the table in the
\* run-th call of write
_makeGDEF(ctx, todo, f, run) ==
    (IF "GlyphClassDefs" \in todo
     THEN <<GdefStatement(500 + run, "GlyphClassDefStatement",
               <<_sortedGlyphClass(getOrderedGlyphSet(f), ctx.openTypeCategories.base),
                 _sortedGlyphClass(getOrderedGlyphSet(f), ctx.openTypeCategories.mark),
                 _sortedGlyphClass(getOrderedGlyphSet(f), ctx.openTypeCategories.ligature),
                 _sortedGlyphClass(getOrderedGlyphSet(f), ctx.openTypeCategories.component)>>)>>
     ELSE <<>>)
    \o (IF "LigatureCarets" \in todo
        THEN [k \in 1..Len(ctx.ligatureCarets) |->
                 GdefStatement(600 + 10 * run + k, "LigatureCaretByPosStatement",
                               <<ctx.ligatureCarets[k].glyphName, ctx.ligatureCarets[k].carets>>)]
        ELSE <<>>)

\* GdefFeatureWriter._write: the document with the new statements in the GDEF
\* table it has, or in a new GDEF table appended to it
gdefWrite(ctx, todo, statements, f, run) ==
    IF ctx.gdefTableBlock # 0
    THEN [statements EXCEPT ![ctx.gdefTableBlock].statements = @ \o _makeGDEF(ctx, todo, f, run)]
    ELSE Append(statements, TableBlock(700 + run, "GDEF", _makeGDEF(ctx, todo, f, run)))

\* the statements a GDEF table of the initial document may hold
TableKinds ==
    {"GlyphClassDefStatement", "LigatureCaretByPosStatement",
     "LigatureCaretByIndexStatement", "AttachStatement"}

\* the documents the GDEF writer is run on: nothing or a feature block, then
\* nothing or a GDEF table of up to MaxTableLen statements
GdefDocuments ==
    {Number(head \o table) :
        head \in {<<>>, <<FeatureBlock(0, "liga", <<Rule(0)>>)>>},
        table \in {<<>>} \cup
            UNION {{<<TableBlock(0, "GDEF", [j \in 1..n |-> GdefStatement(0, c[j], <<>>)])>> :
                       c \in [1..n -> TableKinds]} : n \in 0..MaxTableLen}}

InitGdef ==
    /\ feaFile \in GdefDocuments
    /\ original = feaFile
    /\ writer \in GdefWriters
    /\ font \in Fonts
    /\ context = NoContext
    /\ pc = "idle"
    /\ err = NoError
    /\ call = NoCall
    /\ returned = <<>>

\* GdefFeatureWriter.write (BaseFeatureWriter.write with the overrides): one
\* call, to its return or to the exception that leaves it
GdefWrite ==
    /\ pc = "idle"
    /\ writer \in GdefWriters
    /\ Len(returned) < MaxRuns
    /\ LET ctx == gdefSetContext(writer, feaFile, font)
           todo == gdefShouldContinue(ctx)
       IN /\ call' = [made |-> TRUE, before |-> feaFile, todo |-> IF ctx.err = NoError THEN todo ELSE ctx.todo]
          /\ err' = ctx.err
          /\ IF ctx.err # NoError
             THEN \* setContext raised: write never reaches its try / finally
                  /\ context' = [set |-> TRUE, todo |-> ctx.todo]
                  /\ feaFile' = feaFile
                  /\ returned' = Append(returned, "raised")
             ELSE /\ context' = NoContext
                  /\ IF todo # {}
                     THEN /\ feaFile' = gdefWrite(ctx, todo, feaFile, font, Len(returned) + 1)
                          /\ returned' = Append(returned, "True")
                     ELSE /\ feaFile' = feaFile
                          /\ returned' = Append(returned, "False")
    /\ UNCHANGED <<writer, pc, original, font>>

SpecGdef == InitGdef /\ [][GdefWrite]_vars

---------------------------------------------------------------------------
(* Vocabulary of the properties: what a call of _insert was given and what *)
(* it left, read from the document before (original) and after (feaFile).  *)

\* _insert was called and returned without raising
Inserted == pc = "inserted" /\ err = NoError

\* the statement with this identity, in a list that holds it
At(statements, id) == statements[IndexOf(statements, id) + 1]

\* the features of the call whose name has an insert marker entry
MarkedFeatures ==
    {i \in 1..Len(call.features) :
        /\ Truthy(call.insertComments)
        /\ call.features[i].name \in DOMAIN call.insertComments.map}

\* the host block of the i-th feature as it was before the call, and the
\* position of its marker in it (0-based)
HostId(i) == call.insertComments.map[call.features[i].name].block
Host(i) == At(original, HostId(i))
MarkerAt(i) == IndexOf(Host(i).statements, call.insertComments.map[call.features[i].name].comment)

OnlyCommentsBefore(i) ==
    \A j \in 1..MarkerAt(i) : IsComment(Host(i).statements[j])
OnlyCommentsAfter(i) ==
    \A j \in (MarkerAt(i) + 2)..Len(Host(i).statements) : IsComment(Host(i).statements[j])

\* the statements this call added to the top level
Added == Ids(call.features) \cup Ids(call.lookups)

\* the top-level statements strictly between positions a and b are all added by the call
OnlyAddedBetween(a, b) ==
    \A k \in (a + 1)..(b - 1) : feaFile[k + 1].id \in Added

\* a surviving statement of the original document lies before the statement `id`
\* of the final document exactly when it lay before position p of the original
TakesPosition(id, p) ==
    \A k \in 0..(Len(original) - 1) :
        Has(feaFile, original[k + 1].id) =>
            (IndexOf(feaFile, original[k + 1].id) < IndexOf(feaFile, id) <=> k < p)

BlocksNamed(statements, name) ==
    {k \in 1..Len(statements) :
        statements[k].kind = "FeatureBlock" /\ statements[k].name = name}

\* the placement of the i-th feature of the call, which has a marker entry
PlacedReplacing(i) ==
    /\ ~Has(feaFile, HostId(i))
    /\ Has(feaFile, call.features[i].id)
    /\ TakesPosition(call.features[i].id, IndexOf(original, HostId(i)))
PlacedBefore(i) ==
    /\ Has(feaFile, HostId(i))
    /\ Has(feaFile, call.features[i].id)
    /\ IndexOf(feaFile, call.features[i].id) < IndexOf(feaFile, HostId(i))
    /\ OnlyAddedBetween(IndexOf(feaFile, call.features[i].id), IndexOf(feaFile, HostId(i)))
    /\ At(feaFile, HostId(i)).statements = RemoveAt(Host(i).statements, MarkerAt(i))
PlacedAfter(i) ==
    /\ Has(feaFile, HostId(i))
    /\ Has(feaFile, call.features[i].id)
    /\ IndexOf(feaFile, HostId(i)) < IndexOf(feaFile, call.features[i].id)
    /\ OnlyAddedBetween(IndexOf(feaFile, HostId(i)), IndexOf(feaFile, call.features[i].id))

Placement(i) ==
    IF OnlyCommentsBefore(i) /\ OnlyCommentsAfter(i) THEN PlacedReplacing(i)
    ELSE IF OnlyCommentsBefore(i) THEN PlacedBefore(i)
    ELSE IF OnlyCommentsAfter(i) THEN PlacedAfter(i)
    ELSE TRUE

\* C1 (as amended): for a block inserted by _insert whose name has a marker
\* entry, the marker's position in its host decides the placement: a host of
\* nothing but comments is removed and the new block takes its position among
\* the surviving statements, so the number of blocks of that name is what it
\* was; with only comments before the marker the new block lies before the
\* host, which keeps its statements minus the marker; with only comments after
\* it the new block lies after the host; between the new block and its host
\* lie only blocks and lookups added by the same call.
C1_Placement ==
    Inserted =>
        \A i \in MarkedFeatures :
            /\ Placement(i)
            /\ (OnlyCommentsBefore(i) /\ OnlyCommentsAfter(i)) =>
                   Cardinality(BlocksNamed(feaFile, call.features[i].name))
                       = Cardinality(BlocksNamed(original, call.features[i].name))

\* C1 as stated: replacing a host of nothing but comments leaves exactly one
\* block of that name.
C1_AsStated ==
    Inserted =>
        \A i \in MarkedFeatures :
            /\ Placement(i)
            /\ (OnlyCommentsBefore(i) /\ OnlyCommentsAfter(i)) =>
                   Cardinality(BlocksNamed(feaFile, call.features[i].name)) = 1

\* C1's case: a host of nothing but comments was replaced while the document
\* held a second block of that name
C1_Witness ==
    /\ Inserted
    /\ \E i \in MarkedFeatures :
          /\ OnlyCommentsBefore(i) /\ OnlyCommentsAfter(i)
          /\ Cardinality(BlocksNamed(original, call.features[i].name)) = 2

---------------------------------------------------------------------------
(* The context *)

\* setContext has run in skip mode
SkipContext == pc = "context" /\ writer.mode = "skip"

\* the names of the feature blocks of the document
Present == {feaFile[p].name : p \in {k \in 1..Len(feaFile) : feaFile[k].kind = "FeatureBlock"}}

\* where the document holds insert markers inside feature blocks of that name:
\* <<p, j>> for the j-th statement of the p-th top-level statement
MarkersOf(name) ==
    UNION {{<<p, j>> : j \in {k \in 1..Len(feaFile[p].statements) :
                                   IsMarker(feaFile[p].statements[k])}} :
              p \in BlocksNamed(feaFile, name)}

\* the first of them in document order
FirstOf(places) ==
    CHOOSE x \in places :
        \A y \in places : x[1] < y[1] \/ (x[1] = y[1] /\ x[2] <= y[2])

\* the requested names for which a marker is found inside a block of that name
Marked ==
    IF writer.insertFeatureMarker = NoMarker THEN {}
    ELSE {n \in writer.features : MarkersOf(n) # {}}

\* C2: in skip mode existing is the names of the feature blocks present minus
\* the names with a collected marker, todo is the requested features minus
\* existing, so a requested name is in todo exactly when no block of that name
\* exists or a marker was found inside a block of that name; for each name the
\* first marker found is the one recorded.
C2_SkipTodo ==
    SkipContext =>
        /\ context.existingFeatures = Present \ Marked
        /\ context.todo = writer.features \ context.existingFeatures
        /\ \A n \in writer.features : n \in context.todo <=> (n \notin Present \/ n \in Marked)
        /\ DOMAIN context.insertComments.map = Marked
        /\ \A n \in Marked :
               LET first == FirstOf(MarkersOf(n))
               IN context.insertComments.map[n] =
                      [block |-> feaFile[first[1]].id,
                       comment |-> feaFile[first[1]].statements[first[2]].id]

\* C2's case: a requested name with more than one marker in its blocks, another
\* requested name whose block holds none
C2_Witness ==
    /\ SkipContext
    /\ \E n \in Marked : Cardinality(MarkersOf(n)) >= 2
    /\ \E n \in writer.features : n \in Present /\ n \notin context.todo

\* the insert markers found at the top level of the document
TopLevelMarkers == {p \in 1..Len(feaFile) : IsMarker(feaFile[p])}

\* the insert markers found inside a block that is not a feature block:
\* <<p, j>> for the j-th statement of the p-th top-level statement
MarkersInOtherBlocks ==
    UNION {{<<p, j>> : j \in {k \in 1..Len(feaFile[p].statements) :
                                   IsMarker(feaFile[p].statements[k])}} :
              p \in {q \in 1..Len(feaFile) :
                         HasStatements(feaFile[q]) /\ feaFile[q].kind # "FeatureBlock"}}

\* setContext has run in skip mode, with insert markers enabled, on a document
\* that holds an insert marker outside any feature block: at the top level or
\* inside a block of another kind
MarkerOutsideBlocks ==
    /\ SkipContext
    /\ writer.insertFeatureMarker # NoMarker
    /\ (TopLevelMarkers # {} \/ MarkersInOtherBlocks # {})

\* C7: a marker found outside any feature block makes building the context in
\* skip mode fail with an invalid-marker error, and the document is left
\* unmodified.
C7_OutsideMarkerFails ==
    MarkerOutsideBlocks => (err.type = "InvalidMarkerError" /\ feaFile = original)

---------------------------------------------------------------------------
(* The splice *)

\* the positions (0-based) of the call's lookups and feature blocks in the
\* final document
LookupPlaces == {IndexOf(feaFile, call.lookups[i].id) : i \in 1..Len(call.lookups)}
FeaturePlaces == {IndexOf(feaFile, call.features[i].id) : i \in 1..Len(call.features)}

\* C3: after _insert with lookups, the lookups are one contiguous run of the
\* final document, in caller order, that ends right before the lowest block
\* inserted by the call: none of the call's blocks precedes a lookup.
C3_LookupsBeforeFeatures ==
    (Inserted /\ call.lookups # <<>>) =>
        /\ \A i \in 1..Len(call.lookups) : Has(feaFile, call.lookups[i].id)
        /\ \A i \in 1..(Len(call.lookups) - 1) :
               IndexOf(feaFile, call.lookups[i + 1].id) = IndexOf(feaFile, call.lookups[i].id) + 1
        /\ \A f \in FeaturePlaces : \A l \in LookupPlaces : l < f
        /\ \E f \in FeaturePlaces : \E l \in LookupPlaces : f = l + 1

\* the hosts the call replaced: those of its marked features that held nothing
\* but comments
Replaced ==
    {HostId(i) : i \in {k \in MarkedFeatures : OnlyCommentsBefore(k) /\ OnlyCommentsAfter(k)}}

\* the identities of a list, in its order, restricted to a set
RECURSIVE Restrict(_, _)
Restrict(statements, ids) ==
    IF statements = <<>> THEN <<>>
    ELSE (IF Head(statements).id \in ids THEN <<Head(statements).id>> ELSE <<>>)
             \o Restrict(Tail(statements), ids)

\* what the call leaves of a statement of the original document: a host without
\* its marker, any other statement as it was
Kept(s) ==
    IF \E i \in MarkedFeatures : HostId(i) = s.id
    THEN LET i == CHOOSE k \in MarkedFeatures : HostId(k) = s.id
         IN [s EXCEPT !.statements = RemoveAt(@, MarkerAt(i))]
    ELSE s

\* C4: after a successful _insert every statement of the original top level,
\* other than a replaced host of nothing but comments, is still in the top
\* level, in the original relative order; inside a host the only statement
\* removed is the consumed marker, and nothing else changed.
C4_NothingLost ==
    Inserted =>
        /\ Restrict(feaFile, Ids(original)) = Restrict(original, Ids(original) \ Replaced)
        /\ \A k \in 1..Len(original) :
               original[k].id \notin Replaced =>
                   At(feaFile, original[k].id) = Kept(original[k])

\* C4's case: a call with lookups that replaced one host and took the marker out
\* of a document of several statements
C4_Witness ==
    /\ Inserted
    /\ call.lookups # <<>>
    /\ Replaced # {}
    /\ Len(original) >= 2

\* C5: after a successful _insert no insert marker remains in any feature block
\* named like a block the call inserted.
C5_MarkersConsumed ==
    Inserted =>
        \A i \in 1..Len(call.features) :
            \A p \in BlocksNamed(feaFile, call.features[i].name) :
                \A j \in 1..Len(feaFile[p].statements) : ~IsMarker(feaFile[p].statements[j])

\* _insert was called and raised InvalidFeaturesData
Rejected == pc = "inserted" /\ err.type = "InvalidFeaturesData"

\* the marked features of the call whose marker has a statement that is not a
\* comment before it and one after it
AmidRules == {i \in MarkedFeatures : ~OnlyCommentsBefore(i) /\ ~OnlyCommentsAfter(i)}

\* C8: a marker with a statement that is not a comment on both sides makes
\* _insert fail with InvalidFeaturesData naming the host block; the host is not
\* split (it stays one block at the top level, no statement of it moved out)
\* and the new block of that name is not in the document.
C8_MiddleRejected ==
    (pc = "inserted" /\ AmidRules # {}) =>
        LET i == CHOOSE k \in AmidRules : \A m \in AmidRules : k <= m
        IN /\ err = [type |-> "InvalidFeaturesData", block |-> Host(i).name]
           /\ ~Has(feaFile, call.features[i].id)
           /\ Cardinality(BlocksNamed(feaFile, Host(i).name))
                  = Cardinality(BlocksNamed(original, Host(i).name))
           /\ Has(feaFile, HostId(i))
           /\ Restrict(At(feaFile, HostId(i)).statements,
                       {Host(i).statements[j].id :
                           j \in {k \in 1..Len(Host(i).statements) :
                                     ~IsComment(Host(i).statements[k])}})
                  = Restrict(Host(i).statements,
                             {Host(i).statements[j].id :
                                 j \in {k \in 1..Len(Host(i).statements) :
                                           ~IsComment(Host(i).statements[k])}})

\* C8's case: _insert raised for a marker amid rules
C8_Witness == Rejected /\ AmidRules # {}

\* C9: _insert with lookups and no feature blocks completes without error and
\* appends the lookups at the end of the document, after a blank comment when
\* the document was not empty.
C9_LookupsAppended ==
    (pc = "inserted" /\ call.features = <<>> /\ call.lookups # <<>>) =>
        /\ err = NoError
        /\ \E k \in 0..Len(feaFile) :
              /\ SubSeq(feaFile, k + 1, Len(feaFile)) = call.lookups
              /\ original = <<>> => k = Len(feaFile) - Len(call.lookups)
              /\ original # <<>> =>
                     /\ k >= 1
                     /\ IsComment(feaFile[k]) /\ feaFile[k].text = ""
                     /\ Restrict(SubSeq(feaFile, 1, k - 1), Ids(original)) = Restrict(original, Ids(original))

---------------------------------------------------------------------------
(* The GDEF writer *)

\* the GDEF tables at the top level of a document
GdefTables(statements) ==
    {k \in 1..Len(statements) :
        statements[k].kind = "TableBlock" /\ statements[k].name = "GDEF"}

\* write was last called on a document that held a GDEF table
WroteToExistingTable ==
    /\ returned # <<>>
    /\ GdefTables(call.before) # {}

\* C10: on a document that already holds a GDEF table, with any statements in
\* it and any allowed selection of features, write completes without error,
\* adds no second GDEF table, and appends to the table only statements of the
\* groups (GlyphClassDefs, LigatureCarets) the table did not hold, each group on
\* its own.
C10_ExistingTableExtended ==
    WroteToExistingTable =>
        /\ err = NoError
        /\ returned[Len(returned)] # "raised"
        /\ Cardinality(GdefTables(feaFile)) = 1
        /\ LET k == CHOOSE t \in GdefTables(call.before) : TRUE
               old == call.before[k].statements
               new == feaFile[k].statements
           IN /\ Len(new) >= Len(old)
              /\ SubSeq(new, 1, Len(old)) = old
              /\ \A i \in (Len(old) + 1)..Len(new) :
                     /\ groupOf(new[i]) \in writer.features
                     /\ \A j \in 1..Len(old) : groupOf(old[j]) # groupOf(new[i])

\* C6: when the first write on a document succeeds, the second one computes an
\* empty todo, returns False and leaves the document as the first left it.
C6_SecondWriteSkips ==
    (Len(returned) = 2 /\ returned[1] # "raised") =>
        /\ call.todo = {}
        /\ returned[2] = "False"
        /\ feaFile = call.before

---------------------------------------------------------------------------
(* The back-fill *)

\* the features of the call without an insert marker entry
UnmarkedFeatures == (1..Len(call.features)) \ MarkedFeatures

\* the last feature of the call with an insert marker entry, 0 when there is none
LastMarked ==
    IF MarkedFeatures = {} THEN 0
    ELSE CHOOSE i \in MarkedFeatures : \A j \in MarkedFeatures : j <= i

\* the unmarked features the backwards walk of a later marked feature inserts,
\* and those left to the final loop, which appends them
BackFilled == {i \in UnmarkedFeatures : i < LastMarked}
Appended == {i \in UnmarkedFeatures : i > LastMarked}

\* the final document without the lookups of the call
WithoutLookups == SelectSeq(feaFile, LAMBDA s : s.id \notin Ids(call.lookups))

\* C11 (as amended): the back-fill places an unmarked block that comes before
\* a marked block in the caller's order before that marked block: each such
\* block is immediately followed by the next block of the caller's order (only
\* lookups of the same call may lie between them). The unmarked blocks after
\* the last marked block, all the blocks when there is no marker, are the end
\* of the document, contiguous and in caller order.
C11_BackFill ==
    Inserted =>
        /\ \A i \in BackFilled :
               IndexOf(WithoutLookups, call.features[i + 1].id)
                   = IndexOf(WithoutLookups, call.features[i].id) + 1
        /\ \A i \in Appended :
               IndexOf(feaFile, call.features[i].id)
                   = Len(feaFile) - 1 - (Len(call.features) - i)

\* C11 as stated: when an unmarked block is appended at the bottom, all the
\* unmarked blocks of the call are one contiguous run at the end of the
\* document, in caller order.
C11_AsStated ==
    (Inserted /\ Appended # {}) =>
        \A i \in UnmarkedFeatures :
            IndexOf(feaFile, call.features[i].id)
                = Len(feaFile) - 1 - Cardinality({j \in UnmarkedFeatures : j > i})

\* C11's case: a call with lookups whose marked block resolved to an interior
\* position (a statement of the original document follows it), with an unmarked
\* block before it in the caller's order and one after it
C11_Witness ==
    /\ Inserted
    /\ call.lookups # <<>>
    /\ BackFilled # {}
    /\ Appended # {}
    /\ \E k \in 1..Len(original) :
          /\ Has(feaFile, original[k].id)
          /\ IndexOf(feaFile, original[k].id)
                 > IndexOf(feaFile, call.features[LastMarked].id)

---------------------------------------------------------------------------
(* Failure *)

\* C12: when _insert fails because a marker has statements that are not
\* comments before and after it, the document is as it was before the call:
\* the top-level sequence is unchanged and every host block holds all its
\* statements, its marker included, also when the failing feature is not the
\* first of the list.
C12_FailureAtomic ==
    Rejected => feaFile = original

====
